---------------------------- MODULE Spec2Model ----------------------------
(***************************************************************************)
(* Model of src/app.py, the "Gradient Explorer" Streamlit script.          *)
(*                                                                         *)
(* The script is re-executed from its first line on every widget change.   *)
(* One execution (a pass) reads the three widgets, evaluates the chosen    *)
(* function and its gradient at the point, samples the function over a    *)
(* 50 x 50 grid, builds a three-trace figure and hands it to the chart     *)
(* call.  The model keeps the widget state `ui`, the script's namespace    *)
(* `ns` (the names bound so far in the running pass), the position `pc`    *)
(* of the pass and the figure the pass has sent to the page, `chart`.      *)
(* The sidebar read-outs (lines 49-54) and the closing text (lines         *)
(* 103-116) are st.* calls that compute nothing the figure uses; they are  *)
(* part of the steps "evaluated" and "rendered".                           *)
(*                                                                         *)
(* Three specifications: Spec is the program as the widgets drive it,      *)
(* SpecAny is the script body driven with arbitrary selector strings and   *)
(* floats, SpecMemo is Spec under an observer that keeps one earlier       *)
(* state for comparison.                                                   *)
(*                                                                         *)
(* Floating-point numbers are modelled in fixed point: a finite float v    *)
(* is the integer round(v * Scale); NaN and the two infinities are three   *)
(* reserved integers outside the finite range, and every arithmetic        *)
(* operator propagates them as IEEE-754 arithmetic does.                   *)
(***************************************************************************)
EXTENDS Integers, Sequences, FiniteSets, TLC

(***************************************************************************)
(* Fixed-point floats.  Scale is a multiple of 10 (the slider step is      *)
(* 1/10) and of 49 (the grid step is 5/49), so every slider position and   *)
(* every grid coordinate is represented exactly.                           *)
(***************************************************************************)
Scale == 49 * 100

PInf == 2^30
NInf == -(2^30)
NaN  == 2^30 + 1

IsFinite(a) == a > NInf /\ a < PInf
IsNaN(a) == a = NaN

FromInt(k) == k * Scale

\* n / d rounded to the nearest integer, halves away from zero (d > 0).
RoundDiv(n, d) ==
    IF n >= 0 THEN (2 * n + d) \div (2 * d)
              ELSE -((2 * (-n) + d) \div (2 * d))

\* float * float
FMul(a, b) ==
    IF IsNaN(a) \/ IsNaN(b) THEN NaN
    ELSE IF IsFinite(a) /\ IsFinite(b) THEN RoundDiv(a * b, Scale)
    ELSE IF a = 0 \/ b = 0 THEN NaN
    ELSE IF (a > 0) = (b > 0) THEN PInf ELSE NInf

\* float + float
FAdd(a, b) ==
    IF IsNaN(a) \/ IsNaN(b) THEN NaN
    ELSE IF IsFinite(a) /\ IsFinite(b) THEN a + b
    ELSE IF IsFinite(a) THEN b
    ELSE IF IsFinite(b) THEN a
    ELSE IF a = b THEN a ELSE NaN

\* -float
FNeg(a) == IF IsNaN(a) THEN NaN ELSE -a

\* x**2
FPow2(a) == FMul(a, a)

\* Alternating power series  t - t*n^2/((m+1)(m+2)) + ...  summed until the
\* term vanishes at the model's precision: sin for (t, m) = (n, 1), cos for
\* (t, m) = (1, 0).
RECURSIVE Series(_, _, _)
Series(n, t, m) ==
    IF t = 0 THEN 0
    ELSE t + Series(n,
                    -RoundDiv(RoundDiv(t * n, Scale) * n, Scale * (m + 1) * (m + 2)),
                    m + 2)

\* np.linspace(-2.5, 2.5, 50) (lines 58-59).
GridMin == -((5 * Scale) \div 2)
GridMax == (5 * Scale) \div 2
GridNum == 50

\* The slider points and the grid coordinates, the arguments the script passes
\* to sin and cos, lie in [-2.5, 2.5]; the series is tabulated once over that
\* range.
TabMax == GridMax
SinTable == [k \in 1..(2 * TabMax + 1) |-> Series(k - TabMax - 1, k - TabMax - 1, 1)] \o <<>>
CosTable == [k \in 1..(2 * TabMax + 1) |-> Series(k - TabMax - 1, Scale, 0)] \o <<>>

\* np.sin, np.cos: NaN for a NaN or infinite argument (numpy warns, it does
\* not raise).
np_sin(a) ==
    IF ~IsFinite(a) THEN NaN
    ELSE IF a >= -TabMax /\ a <= TabMax THEN SinTable[a + TabMax + 1]
    ELSE Series(a, a, 1)

np_cos(a) ==
    IF ~IsFinite(a) THEN NaN
    ELSE IF a >= -TabMax /\ a <= TabMax THEN CosTable[a + TabMax + 1]
    ELSE Series(a, Scale, 0)

(***************************************************************************)
(* Strings are sequences of characters; the element "^2" stands for the    *)
(* single character SUPERSCRIPT TWO.                                       *)
(***************************************************************************)
BowlOption ==
    <<"B", "o", "w", "l", " ", "(", "S", "i", "m", "p", "l", "e", ")", ":", " ", "z", " ",
      "=", " ", "x", "^2", " ", "+", " ", "y", "^2">>

MountainsOption ==
    <<"M", "o", "u", "n", "t", "a", "i", "n", "s", " ", "(", "C", "o", "m", "p", "l", "e",
      "x", ")", ":", " ", "z", " ", "=", " ", "s", "i", "n", "(", "x", ")", " ", "*", " ",
      "c", "o", "s", "(", "y", ")">>

\* The options of the selectbox, in order; the first is the default.
Options == <<BowlOption, MountainsOption>>

\* The marker both dispatches test for.
BowlMarker == <<"B", "o", "w", "l">>

\* Python's  sub in s  on strings.
Contains(sub, s) ==
    \E i \in 0..(Len(s) - Len(sub)) : SubSeq(s, i + 1, i + Len(sub)) = sub

(***************************************************************************)
(* calculate_surface (lines 29-43)                                         *)
(***************************************************************************)
\* Variant: the selector is compared with the option's text instead of being
\* searched for the marker.
calculate_surface_exact(choice, x, y) ==
    IF choice = BowlOption
    THEN [z     |-> FAdd(FPow2(x), FPow2(y)),
          dz_dx |-> FMul(FromInt(2), x),
          dz_dy |-> FMul(FromInt(2), y)]
    ELSE [z     |-> FMul(np_sin(x), np_cos(y)),
          dz_dx |-> FMul(np_cos(x), np_cos(y)),
          dz_dy |-> FMul(FNeg(np_sin(x)), np_sin(y))]

\* Variant: the Bowl's second partial derivative is taken in x.
calculate_surface_dy(choice, x, y) ==
    IF Contains(BowlMarker, choice)
    THEN [z     |-> FAdd(FPow2(x), FPow2(y)),
          dz_dx |-> FMul(FromInt(2), x),
          dz_dy |-> FMul(FromInt(2), x)]
    ELSE [z     |-> FMul(np_sin(x), np_cos(y)),
          dz_dx |-> FMul(np_cos(x), np_cos(y)),
          dz_dy |-> FMul(FNeg(np_sin(x)), np_sin(y))]

calculate_surface(choice, x, y) ==
    IF Contains(BowlMarker, choice)
    THEN [z     |-> FAdd(FPow2(x), FPow2(y)),
          dz_dx |-> FMul(FromInt(2), x),
          dz_dy |-> FMul(FromInt(2), y)]
    ELSE [z     |-> FMul(np_sin(x), np_cos(y)),
          dz_dx |-> FMul(np_cos(x), np_cos(y)),
          dz_dy |-> FMul(FNeg(np_sin(x)), np_sin(y))]

(***************************************************************************)
(* The grid (lines 58-66).  Arrays are indexed from 0, as in numpy.        *)
(***************************************************************************)
\* Variant: endpoint=False, the stop value is not sampled.
linspace_open(start, stop, num) ==
    LET step == RoundDiv(stop - start, num)
    IN  [k \in 0..(num - 1) |-> start + k * step]

\* np.linspace(start, stop, num): num points, both endpoints included.
linspace(start, stop, num) ==
    LET step == RoundDiv(stop - start, num - 1)
    IN  [k \in 0..(num - 1) |-> IF k = num - 1 THEN stop ELSE start + k * step]

\* Variant: indexing "ij", one row per element of x.
meshgrid_ij(x, y) ==
    [X |-> [i \in DOMAIN x |-> [j \in DOMAIN y |-> x[i]]],
     Y |-> [i \in DOMAIN x |-> [j \in DOMAIN y |-> y[j]]]]

\* np.meshgrid(x, y) with its default indexing "xy": both results have one
\* row per element of y and one column per element of x.
meshgrid(x, y) ==
    [X |-> [i \in DOMAIN y |-> [j \in DOMAIN x |-> x[j]]],
     Y |-> [i \in DOMAIN y |-> [j \in DOMAIN x |-> y[i]]]]

\* numpy's element-wise operations on equal-shaped 2D arrays.
ArrPow2(A) == [i \in DOMAIN A |-> [j \in DOMAIN A[i] |-> FPow2(A[i][j])]]
ArrSin(A) == [i \in DOMAIN A |-> [j \in DOMAIN A[i] |-> np_sin(A[i][j])]]
ArrCos(A) == [i \in DOMAIN A |-> [j \in DOMAIN A[i] |-> np_cos(A[i][j])]]
ArrAdd(A, B) == [i \in DOMAIN A |-> [j \in DOMAIN A[i] |-> FAdd(A[i][j], B[i][j])]]
ArrMul(A, B) == [i \in DOMAIN A |-> [j \in DOMAIN A[i] |-> FMul(A[i][j], B[i][j])]]

\* Variant: the grid's dispatch compares the selector with the option's text.
surface_grid_exact(choice, X, Y) ==
    IF choice = BowlOption
    THEN ArrAdd(ArrPow2(X), ArrPow2(Y))
    ELSE ArrMul(ArrSin(X), ArrCos(Y))

\* Lines 63-66: Z for the whole grid.
surface_grid(choice, X, Y) ==
    IF Contains(BowlMarker, choice)
    THEN ArrAdd(ArrPow2(X), ArrPow2(Y))
    ELSE ArrMul(ArrSin(X), ArrCos(Y))

(***************************************************************************)
(* The figure (lines 68-98): the three traces, in the order added.         *)
(***************************************************************************)
SurfaceTrace(X, Y, Z) == [type |-> "Surface", x |-> X, y |-> Y, z |-> Z]

PointTrace(x, y, z) == [type |-> "Scatter3d", x |-> <<x>>, y |-> <<y>>, z |-> <<z>>]

\* Variant: the arrow is given the surface's slope as its vertical component.
ConeTrace_tangent(x, y, z, gx, gy) ==
    [type |-> "Cone", anchor |-> "tail",
     x |-> <<x>>, y |-> <<y>>, z |-> <<z>>,
     u |-> <<gx>>, v |-> <<gy>>, w |-> <<FAdd(FPow2(gx), FPow2(gy))>>]

ConeTrace(x, y, z, gx, gy) ==
    [type |-> "Cone", anchor |-> "tail",
     x |-> <<x>>, y |-> <<y>>, z |-> <<z>>,
     u |-> <<gx>>, v |-> <<gy>>, w |-> <<FromInt(0)>>]

\* Variant: the marker is drawn on the floor instead of on the surface.
build_figure_floor(n) ==
    <<SurfaceTrace(n.X, n.Y, n.Z),
      PointTrace(n.x_val, n.y_val, FromInt(0)),
      ConeTrace(n.x_val, n.y_val, n.z_val, n.grad_x, n.grad_y)>>

build_figure(n) ==
    <<SurfaceTrace(n.X, n.Y, n.Z),
      PointTrace(n.x_val, n.y_val, n.z_val),
      ConeTrace(n.x_val, n.y_val, n.z_val, n.grad_x, n.grad_y)>>

(***************************************************************************)
(* The widgets (lines 18-26).                                              *)
(***************************************************************************)
SliderMin == -2 * Scale
\* Variant: a slider that reaches 3.0.
SliderMax_wide == 3 * Scale
SliderMax == 2 * Scale
SliderDefault == Scale \div 2
SliderStep == Scale \div 10

\* The positions a slider can be set to.
SliderValues ==
    {SliderMin + k * SliderStep : k \in 0..((SliderMax - SliderMin) \div SliderStep)}

(***************************************************************************)
(* State                                                                   *)
(***************************************************************************)
VARIABLES
    ui,     \* the widgets' state: [choice, x, y]
    pc,     \* position of the running pass in the script
    ns,     \* the script's namespace: the names bound so far, with values
    chart,  \* the figure this pass has handed to st.plotly_chart, or NoChart
    memo    \* observer: at most one earlier state of the program, kept whole

vars == <<ui, pc, ns, chart, memo>>

\* A fresh run binds nothing and has sent nothing.
EmptyNs == [name \in {} |-> 0]
NoChart == <<>>

Bound(name) == name \in DOMAIN ns

\* Python assignment: the names of b are bound in n, rebinding any that are
\* bound already.
Bind(n, b) == b @@ n

\* Streamlit handles a widget change that arrives during a run at the script's
\* next st.* call, where it stops the run and starts the script again.  After
\* the widgets are read the script makes such calls at lines 49-54, which
\* follow the point evaluation, and from st.plotly_chart on (lines 100-116);
\* between line 58 and line 100 it makes none.  A change is therefore taken
\* either after the point evaluation or once the figure is on the page.
Checkpoints == {"evaluated", "rendered"}

Init ==
    /\ ui = [choice |-> Options[1], x |-> SliderDefault, y |-> SliderDefault]
    /\ pc = "start"
    /\ ns = EmptyNs
    /\ chart = NoChart
    /\ memo = <<>>

\* Observer only: the reruns since the state kept in memo, counted up to
\* MaxReruns.  memo stays empty unless Snapshot fills it.
MaxReruns == 2

CountRerun ==
    memo' = IF memo = <<>> THEN memo
            ELSE <<[memo[1] EXCEPT !.reruns = IF @ < MaxReruns THEN @ + 1 ELSE @]>>

\* Variant: the namespace and the page of the previous run survive a rerun.
Rerun_keep ==
    /\ pc' = "start"
    /\ ns' = ns
    /\ chart' = chart

\* A widget change discards the running pass and starts the script again.
Rerun ==
    /\ pc' = "start"
    /\ ns' = EmptyNs
    /\ chart' = NoChart

\* The user picks another option of the selectbox.
SelectFunction(o) ==
    /\ pc \in Checkpoints
    /\ o # ui.choice
    /\ ui' = [ui EXCEPT !.choice = o]
    /\ Rerun
    /\ CountRerun

\* The user moves the x slider.
SlideX(v) ==
    /\ pc \in Checkpoints
    /\ v # ui.x
    /\ ui' = [ui EXCEPT !.x = v]
    /\ Rerun
    /\ CountRerun

\* The user moves the y slider.
SlideY(v) ==
    /\ pc \in Checkpoints
    /\ v # ui.y
    /\ ui' = [ui EXCEPT !.y = v]
    /\ Rerun
    /\ CountRerun

\* Lines 18-26: the widget calls return the widgets' current values.
ReadWidgets ==
    /\ pc = "start"
    /\ ns' = Bind(ns, [function_choice |-> ui.choice, x_val |-> ui.x, y_val |-> ui.y])
    /\ pc' = "inputs"
    /\ UNCHANGED <<ui, chart, memo>>

\* Line 46.
EvaluatePoint ==
    /\ pc = "inputs"
    /\ LET r == calculate_surface(ns.function_choice, ns.x_val, ns.y_val)
       IN  ns' = Bind(ns, [z_val |-> r.z, grad_x |-> r.dz_dx, grad_y |-> r.dz_dy])
    /\ pc' = "evaluated"
    /\ UNCHANGED <<ui, chart, memo>>

\* Lines 58-66.
SampleGrid ==
    /\ pc = "evaluated"
    /\ LET axis == linspace(GridMin, GridMax, GridNum)
           g == meshgrid(axis, axis)
       IN  ns' = Bind(ns, [X |-> g.X, Y |-> g.Y,
                            Z |-> surface_grid(ns.function_choice, g.X, g.Y)])
    /\ pc' = "sampled"
    /\ UNCHANGED <<ui, chart, memo>>

\* Lines 68-98.
BuildFigure ==
    /\ pc = "sampled"
    /\ ns' = Bind(ns, [fig |-> build_figure(ns)])
    /\ pc' = "built"
    /\ UNCHANGED <<ui, chart, memo>>

\* Line 100.
Render ==
    /\ pc = "built"
    /\ chart' = ns.fig
    /\ pc' = "rendered"
    /\ UNCHANGED <<ui, ns, memo>>

Pass == ReadWidgets \/ EvaluatePoint \/ SampleGrid \/ BuildFigure \/ Render

Next ==
    \/ Pass
    \/ \E k \in DOMAIN Options : SelectFunction(Options[k])
    \/ \E v \in SliderValues : SlideX(v)
    \/ \E v \in SliderValues : SlideY(v)

Spec == Init /\ [][Next]_vars

(***************************************************************************)
(* The script body driven with arbitrary arguments.  The widgets confine   *)
(* the selector to the two options and the coordinates to the slider       *)
(* positions; calculate_surface and the grid dispatch themselves accept    *)
(* any string and any float.  SpecAny runs the same pass with the three    *)
(* inputs drawn from selectors that are no option and from floats that     *)
(* include NaN and the infinities.                                         *)
(***************************************************************************)
AnySelectors ==
    {BowlOption, MountainsOption,
     <<"B", "o", "w", "l">>,
     <<"M", "o", "u", "n", "t", "a", "i", "n", "s">>,
     <<"b", "o", "w", "l">>,
     <<"S", "a", "d", "d", "l", "e">>,
     <<"B", "o", "w", "l", "i", "n", "g">>,
     <<"N", "o", "t", " ", "a", " ", "B", "o", "w", "l">>}

AnyFloats == {0, Scale, -Scale, SliderDefault, 2 * Scale, NaN, PInf, NInf}

InitAny ==
    /\ ui \in [choice : AnySelectors, x : AnyFloats, y : AnyFloats]
    /\ pc = "start"
    /\ ns = EmptyNs
    /\ chart = NoChart
    /\ memo = <<>>

\* The next call of the script body, with other arguments.
Drive(c, x, y) ==
    /\ pc = "rendered"
    /\ ui' = [choice |-> c, x |-> x, y |-> y]
    /\ ui' # ui
    /\ Rerun
    /\ CountRerun

NextAny ==
    \/ Pass
    \/ \E c \in AnySelectors, x \in AnyFloats, y \in AnyFloats : Drive(c, x, y)

SpecAny == InitAny /\ [][NextAny]_vars

(***************************************************************************)
(* The program under an observer that keeps one earlier state.  The        *)
(* sliders move at most MemoReach notches away from their defaults, which  *)
(* keeps the pairs (kept state, current state) few.                        *)
(***************************************************************************)
MemoReach == 1

NearValues ==
    {v \in SliderValues :
        v >= SliderDefault - MemoReach * SliderStep /\ v <= SliderDefault + MemoReach * SliderStep}

\* Observer only: keep the current state.  One state is kept, and only a
\* state at one of the two ends of a pass.
Snapshot ==
    /\ memo = <<>>
    /\ pc \in {"start", "rendered"}
    /\ memo' = <<[pc |-> pc, ui |-> ui, ns |-> ns, chart |-> chart, reruns |-> 0]>>
    /\ UNCHANGED <<ui, pc, ns, chart>>

NextMemo ==
    \/ Pass
    \/ \E k \in DOMAIN Options : SelectFunction(Options[k])
    \/ \E v \in NearValues : SlideX(v)
    \/ \E v \in NearValues : SlideY(v)
    \/ Snapshot

SpecMemo == Init /\ [][NextMemo]_vars

(***************************************************************************)
(* The registered functions as the specification tabulates them:           *)
(*     Bowl       x^2 + y^2       2x              2y                       *)
(*     Mountains  sin(x) cos(y)   cos(x) cos(y)   -sin(x) sin(y)           *)
(***************************************************************************)
Variants == {"Bowl", "Mountains"}

ValueOf(variant, x, y) ==
    IF variant = "Bowl" THEN FAdd(FMul(x, x), FMul(y, y)) ELSE FMul(np_sin(x), np_cos(y))

BowlTriple(x, y) ==
    [z |-> ValueOf("Bowl", x, y),
     dz_dx |-> FMul(FromInt(2), x),
     dz_dy |-> FMul(FromInt(2), y)]

MountainsTriple(x, y) ==
    [z |-> ValueOf("Mountains", x, y),
     dz_dx |-> FMul(np_cos(x), np_cos(y)),
     dz_dy |-> FNeg(FMul(np_sin(x), np_sin(y)))]

TripleOf(variant, x, y) ==
    IF variant = "Bowl" THEN BowlTriple(x, y) ELSE MountainsTriple(x, y)

\* The variant an option of the selectbox names.
VariantOf(option) == IF option = BowlOption THEN "Bowl" ELSE "Mountains"

\* The registered names: the two options, and the bare names of the variants.
Registered(s) ==
    s \in {BowlOption, MountainsOption,
           <<"B", "o", "w", "l">>, <<"M", "o", "u", "n", "t", "a", "i", "n", "s">>}

\* The triple the running pass has bound.
PointTriple == [z |-> ns.z_val, dz_dx |-> ns.grad_x, dz_dy |-> ns.grad_y]

\* The one-dimensional coordinate axis of the sampled domain.
Axis == linspace(GridMin, GridMax, GridNum)
Idx == 0..(GridNum - 1)

TraceOf(fig, type) == CHOOSE tr \in {fig[k] : k \in DOMAIN fig} : tr.type = type

(***************************************************************************)
(* C1.  As claimed: a selector that is not a registered name makes         *)
(* calculate_surface fail, so a pass run with such a selector never binds  *)
(* a (z, dz_dx, dz_dy) triple.                                             *)
(***************************************************************************)
C1_UnknownSelectorFails ==
    ~Registered(ui.choice) => ~Bound("z_val")

(***************************************************************************)
(* C1, amended.  calculate_surface never rejects a selector: a selector    *)
(* that contains "Bowl" anywhere yields the Bowl triple and every other    *)
(* selector, registered or not, yields the Mountains triple.               *)
(***************************************************************************)
C1_UnknownSelectorDefaults ==
    Bound("z_val") =>
        PointTriple = TripleOf(IF Contains(BowlMarker, ns.function_choice)
                               THEN "Bowl" ELSE "Mountains",
                               ns.x_val, ns.y_val)

C1_Witness ==
    /\ pc = "evaluated"
    /\ ~Registered(ns.function_choice)
    /\ ~Contains(BowlMarker, ns.function_choice)
    /\ IsFinite(ns.x_val) /\ IsFinite(ns.y_val)
    /\ PointTriple = MountainsTriple(ns.x_val, ns.y_val)

(***************************************************************************)
(* C2.  As claimed: a NaN or infinite coordinate makes the evaluation      *)
(* fail, so a pass run with one never binds a result and never reaches     *)
(* the render step.                                                        *)
(***************************************************************************)
C2_NonFiniteFails ==
    (~IsFinite(ui.x) \/ ~IsFinite(ui.y)) => (~Bound("z_val") /\ chart = NoChart)

(***************************************************************************)
(* C3.  For the Bowl and every slider point, z = x*x + y*y and the         *)
(* gradient is (2x, 2y), in exact arithmetic; (1, 1) gives z = 2 and       *)
(* gradient (2, 2); the gradient is (0, 0) exactly at the origin.          *)
(***************************************************************************)
C3_BowlFormulas ==
    (Bound("z_val") /\ ns.function_choice = BowlOption) =>
        /\ ns.z_val * Scale = ns.x_val * ns.x_val + ns.y_val * ns.y_val
        /\ ns.grad_x = 2 * ns.x_val
        /\ ns.grad_y = 2 * ns.y_val
        /\ (ns.x_val = FromInt(1) /\ ns.y_val = FromInt(1)) =>
               (ns.z_val = FromInt(2) /\ ns.grad_x = FromInt(2) /\ ns.grad_y = FromInt(2))
        /\ (ns.grad_x = 0 /\ ns.grad_y = 0) <=> (ns.x_val = 0 /\ ns.y_val = 0)

C3_Witness ==
    /\ pc = "evaluated"
    /\ ns.function_choice = BowlOption
    /\ ns.x_val = FromInt(1) /\ ns.y_val = FromInt(1)
    /\ ns.z_val = FromInt(2)

(***************************************************************************)
(* C4.  After grid sampling X, Y and Z are three 50 x 50 arrays, the       *)
(* coordinates are the 50 evenly spaced values from -2.5 to 2.5, both      *)
(* ends included, every pair of them is the coordinate of one cell, and    *)
(* Z[i][j] = value(X[i][j], Y[i][j]) for the selected variant.             *)
(***************************************************************************)
Is50x50(A) == DOMAIN A = Idx /\ \A i \in Idx : DOMAIN A[i] = Idx

Lattice == {GridMin + k * ((GridMax - GridMin) \div (GridNum - 1)) : k \in Idx}

C4_GridSampling ==
    pc = "sampled" =>
        /\ Is50x50(ns.X) /\ Is50x50(ns.Y) /\ Is50x50(ns.Z)
        /\ (GridNum - 1) * ((GridMax - GridMin) \div (GridNum - 1)) = GridMax - GridMin
        /\ GridMin \in Lattice /\ GridMax \in Lattice
        /\ {<<ns.X[i][j], ns.Y[i][j]>> : i \in Idx, j \in Idx} = Lattice \X Lattice
        /\ LET variant == VariantOf(ns.function_choice)
           IN  \A i \in Idx, j \in Idx :
                   ns.Z[i][j] = ValueOf(variant, ns.X[i][j], ns.Y[i][j])

C4_Witness ==
    /\ pc = "sampled"
    /\ ns.function_choice = MountainsOption
    /\ ns.X[0][GridNum - 1] = GridMax
    /\ ns.Y[GridNum - 1][0] = GridMax
    /\ ns.Z[0][GridNum - 1] = MountainsTriple(GridMax, GridMin).z

(***************************************************************************)
(* C5.  As claimed: the height field is indexed x-first,                   *)
(* Z[i][j] = value(axis[i], axis[j]), for both variants.                   *)
(***************************************************************************)
C5_XFirst ==
    pc = "sampled" =>
        LET variant == VariantOf(ns.function_choice)
        IN  \A i \in Idx, j \in Idx : ns.Z[i][j] = ValueOf(variant, Axis[i], Axis[j])

(***************************************************************************)
(* C5, amended.  The height field is indexed y-first: Z[i][j] =            *)
(* value(axis[j], axis[i]), the first index selects the y coordinate and  *)
(* the second the x coordinate, for both variants.                         *)
(***************************************************************************)
C5_YFirst ==
    pc = "sampled" =>
        LET variant == VariantOf(ns.function_choice)
        IN  \A i \in Idx, j \in Idx : ns.Z[i][j] = ValueOf(variant, Axis[j], Axis[i])

C5_Witness ==
    /\ pc = "sampled"
    /\ ns.function_choice = MountainsOption
    /\ ns.Z[0][GridNum - 1] = MountainsTriple(Axis[GridNum - 1], Axis[0]).z
    /\ ns.Z[0][GridNum - 1] # MountainsTriple(Axis[0], Axis[GridNum - 1]).z

(***************************************************************************)
(* C6.  In every rendered scene the arrow is anchored at the evaluated     *)
(* point (x, y, value(x, y)) and its direction is (gx, gy, 0): the         *)
(* vertical component is 0 whatever the gradient, the horizontal           *)
(* components are the gradient the point evaluation returned.              *)
(***************************************************************************)
C6_ArrowIsHorizontal ==
    chart # NoChart =>
        LET cone == TraceOf(chart, "Cone")
            t == TripleOf(VariantOf(ui.choice), ui.x, ui.y)
        IN  /\ cone.anchor = "tail"
            /\ cone.x = <<ui.x>> /\ cone.y = <<ui.y>> /\ cone.z = <<t.z>>
            /\ cone.u = <<ns.grad_x>> /\ cone.v = <<ns.grad_y>>
            /\ cone.u = <<t.dz_dx>> /\ cone.v = <<t.dz_dy>>
            /\ cone.w = <<0>>

C6_Witness ==
    /\ chart # NoChart
    /\ TraceOf(chart, "Cone").u # <<0>>
    /\ TraceOf(chart, "Cone").v # <<0>>
    /\ TraceOf(chart, "Cone").w = <<0>>

(***************************************************************************)
(* C7.  No state is retained between passes: whenever the program is at    *)
(* the same position of a pass with the same three inputs as in a state    *)
(* it was in earlier, its namespace and its page are what they were then,  *)
(* whatever passes ran in between.  In particular two completed passes     *)
(* with identical inputs have identical results.                           *)
(***************************************************************************)
C7_NoRetainedState ==
    (memo # <<>> /\ memo[1].pc = pc /\ memo[1].ui = ui) =>
        (ns = memo[1].ns /\ chart = memo[1].chart)

\* A completed pass with the inputs of a kept completed pass, two reruns later:
\* the widgets have been changed and changed back in between.
C7_Witness ==
    /\ memo # <<>>
    /\ memo[1].reruns >= 2
    /\ memo[1].pc = "rendered" /\ pc = "rendered"
    /\ memo[1].ui = ui
    /\ ui.choice = MountainsOption
    /\ ns = memo[1].ns /\ chart = memo[1].chart

ScriptOrder ==
    {<<"start", "inputs">>, <<"inputs", "evaluated">>, <<"evaluated", "sampled">>,
     <<"sampled", "built">>, <<"built", "rendered">>}

C8_StepOrder ==
    /\ ui' # ui => (pc' = "start" /\ DOMAIN ns' = {} /\ chart' = NoChart)
    /\ pc' # pc => (<<pc, pc'>> \in ScriptOrder \/ (ui' # ui /\ pc' = "start"))
    /\ (ui' = ui /\ pc' = pc) => (ns' = ns /\ chart' = chart)

C8_RenderOwnPass ==
    /\ Bound("x_val") =>
          (ns.function_choice = ui.choice /\ ns.x_val = ui.x /\ ns.y_val = ui.y)
    /\ chart # NoChart <=> pc = "rendered"
    /\ pc = "rendered" =>
          /\ TraceOf(chart, "Surface").x = ns.X
          /\ TraceOf(chart, "Surface").y = ns.Y
          /\ TraceOf(chart, "Surface").z = ns.Z
          /\ TraceOf(chart, "Scatter3d").x = <<ns.x_val>>
          /\ TraceOf(chart, "Scatter3d").y = <<ns.y_val>>
          /\ TraceOf(chart, "Scatter3d").z = <<ns.z_val>>

GridOf(variant) ==
    [i \in Idx |-> [j \in Idx |-> ValueOf(variant, Axis[j], Axis[i])]]

C9_SameVariantTwice ==
    (chart # NoChart /\ IsFinite(ui.x) /\ IsFinite(ui.y)) =>
        /\ \E variant \in Variants : TraceOf(chart, "Surface").z = GridOf(variant)
        /\ \A variant \in Variants :
              TraceOf(chart, "Surface").z = GridOf(variant) =>
                  TraceOf(chart, "Scatter3d").z = <<ValueOf(variant, ui.x, ui.y)>>

C9_Witness ==
    /\ chart # NoChart
    /\ ~Registered(ui.choice)
    /\ Contains(BowlMarker, ui.choice)
    /\ ui.x = Scale /\ ui.y = SliderDefault
    /\ TraceOf(chart, "Surface").z = GridOf("Bowl")
    /\ TraceOf(chart, "Scatter3d").z = <<BowlTriple(ui.x, ui.y).z>>

(***************************************************************************)
(* C10.  x and y are always multiples of the step 0.1 within [-2.0, 2.0],  *)
(* so the marker and the arrow's anchor always lie strictly inside the     *)
(* sampled domain [-2.5, 2.5] x [-2.5, 2.5].                               *)
(***************************************************************************)
OnSlider(v) == v % (Scale \div 10) = 0 /\ v >= -2 * Scale /\ v <= 2 * Scale

StrictlyInside(v) == v > -((5 * Scale) \div 2) /\ v < (5 * Scale) \div 2

C10_PointInsideDomain ==
    /\ OnSlider(ui.x) /\ OnSlider(ui.y)
    /\ Bound("x_val") => (OnSlider(ns.x_val) /\ OnSlider(ns.y_val))
    /\ chart # NoChart =>
          \A type \in {"Scatter3d", "Cone"} :
              /\ StrictlyInside(TraceOf(chart, type).x[1])
              /\ StrictlyInside(TraceOf(chart, type).y[1])

C10_Witness ==
    /\ chart # NoChart
    /\ ui.x = 2 * Scale /\ ui.y = -2 * Scale
    /\ TraceOf(chart, "Scatter3d").x = <<2 * Scale>>
    /\ TraceOf(chart, "Cone").y = <<-2 * Scale>>

=============================================================================
